---- MODULE Spec2Model ----
(***************************************************************************)
(* Model of sweepai/app/ui.py: the chat-session orchestration loop of the  *)
(* Sweep chat UI (handle_message_submit, handle_message_stream and the     *)
(* event wiring around them).                                              *)
(*                                                                         *)
(* A Python str is a sequence of characters; a character is a one-letter   *)
(* TLA+ string, except the few characters a TLA+ string literal cannot     *)
(* hold, which get a name: "BACKTICK", "BULB", "HOURGLASS", "CHECKMARK".   *)
(* An optional value (Python None or a value) is a sequence of length at   *)
(* most one: None is << >>, a value v is << v >>.                          *)
(***************************************************************************)
EXTENDS Integers, Sequences, FiniteSets, TLC

\* ------------------------------------------------------------ bounds
\* What the user does in one session: submissions (accepted or rejected) and
\* widget events (clear button, file selection, repository selection).
MaxInteractions == 3
\* Submissions in one session of the stream-aggregator specification.
MaxStreamTurns == 2
\* Fragments of the freely combined streams of the stream-aggregator specification.
MaxChunks == 3
\* Submissions and repository changes of a session of the event-chain specification.
MaxChainEvents == 5

\* ------------------------------------------------------------ literals
INITIAL_SNIPPETS_TEXT ==
    <<"#", "#", "#", " ", "R", "e", "l", "e", "v", "a", "n", "t", " ", "s", "n", "i", "p", "p",
      "e", "t", "s">>
SNIPPETS_HEADER ==
    <<"#", "#", "#", " ", "R", "e", "l", "e", "v", "a", "n", "t", " ", "s", "n", "i", "p", "p",
      "e", "t", "s", ":", "\n">>
SEARCHING_TEXT ==
    <<"S", "e", "a", "r", "c", "h", "i", "n", "g", " ", "f", "o", "r", " ", "r", "e", "l", "e",
      "v", "a", "n", "t", " ", "s", "n", "i", "p", "p", "e", "t", "s", ".", ".", ".">>
FOUND_TEXT ==
    <<"F", "o", "u", "n", "d", " ", "r", "e", "l", "e", "v", "a", "n", "t", " ", "s", "n", "i",
      "p", "p", "e", "t", "s", ".">>
CREATING_PR_TEXT ==
    <<"HOURGLASS", " ", "C", "r", "e", "a", "t", "i", "n", "g", " ", "P", "R", ".", ".", ".">>
PR_CREATED_PREFIX ==
    <<"CHECKMARK", " ", "P", "R", " ", "c", "r", "e", "a", "t", "e", "d", " ", "a", "t", " ">>
FETCHING_TEXT ==
    <<"F", "e", "t", "c", "h", "i", "n", "g", " ", "e", "n", "d", "p", "o", "i", "n", "t", ".",
      ".", ".">>
CALLING_PREFIX ==
    <<"C", "a", "l", "l", "i", "n", "g", " ", "f", "u", "n", "c", "t", "i", "o", "n", ":", " ",
      "BACKTICK">>
CALLING_MIDDLE ==
    <<"BACKTICK", "\n", "BACKTICK", "BACKTICK", "BACKTICK", "j", "s", "o", "n", "\n">>
FENCE_END == <<"\n", "BACKTICK", "BACKTICK", "BACKTICK">>
FENCE_PYTHON == <<"\n", "BACKTICK", "BACKTICK", "BACKTICK", "p", "y", "t", "h", "o", "n", "\n">>
PREVIEW_END == <<"\n", ".", ".", ".", "\n", "BACKTICK", "BACKTICK", "BACKTICK">>
TEMPLATE_HEAD ==
    <<"BULB", " ", "I", "'", "l", "l", " ", "c", "r", "e", "a", "t", "e", " ", "t", "h", "e",
      " ", "f", "o", "l", "l", "o", "w", "i", "n", "g", " ", "P", "R", ":", "\n", "\n", "*",
      "*">>
TEMPLATE_AFTER_TITLE == <<"*", "*", "\n">>
TEMPLATE_AFTER_SUMMARY ==
    <<"\n", "\n", "H", "e", "r", "e", " ", "i", "s", " ", "m", "y", " ", "p", "l", "a", "n",
      ":", "\n">>
TEMPLATE_TAIL ==
    <<"\n", "\n", "R", "e", "p", "l", "y", " ", "w", "i", "t", "h", " ", "\"", "o", "k", "\"",
      " ", "t", "o", " ", "c", "r", "e", "a", "t", "e", " ", "t", "h", "e", " ", "P", "R", " ",
      "o", "r", " ", "a", "n", "y", "t", "h", "i", "n", "g", " ", "e", "l", "s", "e", " ", "t",
      "o", " ", "p", "r", "o", "p", "o", "s", "e", " ", "c", "h", "a", "n", "g", "e", "s", ".">>
PLAN_ITEM_HEAD == <<"*", " ", "BACKTICK">>
PLAN_ITEM_MIDDLE == <<"BACKTICK", ":", " ">>
KEY_TITLE == <<"t", "i", "t", "l", "e">>
KEY_SUMMARY == <<"s", "u", "m", "m", "a", "r", "y">>
KEY_PLAN == <<"p", "l", "a", "n">>
KEY_BRANCH == <<"b", "r", "a", "n", "c", "h">>
KEY_FILE_PATH == <<"f", "i", "l", "e", "_", "p", "a", "t", "h">>
KEY_INSTRUCTIONS == <<"i", "n", "s", "t", "r", "u", "c", "t", "i", "o", "n", "s">>
CREATE_PR == <<"c", "r", "e", "a", "t", "e", "_", "p", "r">>
OK_TEXT == <<"o", "k">>
OKAY_TEXT == <<"o", "k", "a", "y">>
NONE_TEXT == <<"N", "o", "n", "e">>
\* ------------------------------------------------------------ input texts
INITIAL_REPO == <<"o", "/", "r">>
FILE_A == <<"a", ".", "p", "y">>
MSG_OK_UPPER_WS == <<" ", "O", "K", "\n">>
MSG_OKAY == <<"O", "k", "a", "y">>
MSG_OK_WAIT == <<"o", "k", " ", "p", "l", "e", "a", "s", "e", " ", "w", "a", "i", "t">>
TXT_HEL == <<"H", "e", "l">>
TXT_LO == <<"l", "o">>
ARGS_PART_1 == <<"{", "\"", "t", "i">>
ARGS_PART_2 ==
    <<"t", "l", "e", "\"", ":", "\"", "X", "\"", ",", "\"", "s", "u", "m", "m", "a", "r", "y",
      "\"", ":", "\"", "S", "\"", ",", "\"", "p", "l", "a", "n", "\"", ":", "[", "]", "}">>
ARGS_FULL ==
    <<"{", "\"", "t", "i", "t", "l", "e", "\"", ":", "\"", "F", "i", "x", " ", "A", "-", "b",
      "\"", ",", "\"", "s", "u", "m", "m", "a", "r", "y", "\"", ":", "\"", "S", "\"", ",",
      "\"", "p", "l", "a", "n", "\"", ":", "[", "{", "\"", "f", "i", "l", "e", "_", "p", "a",
      "t", "h", "\"", ":", "\"", "a", ".", "p", "y", "\"", ",", "\"", "i", "n", "s", "t", "r",
      "u", "c", "t", "i", "o", "n", "s", "\"", ":", "\"", "d", "o", " ", "i", "t", "\"", "}",
      ",", "{", "\"", "f", "i", "l", "e", "_", "p", "a", "t", "h", "\"", ":", "\"", "b", ".",
      "p", "y", "\"", ",", "\"", "i", "n", "s", "t", "r", "u", "c", "t", "i", "o", "n", "s",
      "\"", ":", "\"", "u", "n", "d", "o", "\"", "}", "]", "}">>
ARGS_WITH_BRANCH ==
    <<"{", "\"", "t", "i", "t", "l", "e", "\"", ":", "\"", "T", "\"", ",", "\"", "s", "u", "m",
      "m", "a", "r", "y", "\"", ":", "\"", "S", "\"", ",", "\"", "p", "l", "a", "n", "\"", ":",
      "[", "]", ",", "\"", "b", "r", "a", "n", "c", "h", "\"", ":", "\"", "M", "y", "-", "B",
      "r", "a", "n", "c", "h", "\"", "}">>
ARGS_NO_TITLE ==
    <<"{", "\"", "s", "u", "m", "m", "a", "r", "y", "\"", ":", "\"", "S", "\"", ",", "\"", "p",
      "l", "a", "n", "\"", ":", "[", "]", "}">>
ARGS_NO_SUMMARY ==
    <<"{", "\"", "t", "i", "t", "l", "e", "\"", ":", "\"", "X", "\"", ",", "\"", "p", "l", "a",
      "n", "\"", ":", "[", "]", "}">>
ARGS_NO_PLAN ==
    <<"{", "\"", "t", "i", "t", "l", "e", "\"", ":", "\"", "X", "\"", ",", "\"", "s", "u", "m",
      "m", "a", "r", "y", "\"", ":", "\"", "S", "\"", "}">>
ARGS_EMPTY_OBJECT == <<"{", "}">>
LONG_TITLE_UNIT == <<"A", "b", "-", "c", " ", "d">>
FN_OTHER == <<"s", "e", "a", "r", "c", "h">>

\* ------------------------------------------------------------ Python values
\* Optional values: None, and a present value.
None == << >>
Some(v) == << v >>

\* Characters str.strip() removes.
Whitespace == {" ", "\t", "\n", "\r"}
UpperCase ==
    <<"A", "B", "C", "D", "E", "F", "G", "H", "I", "J", "K", "L", "M",
      "N", "O", "P", "Q", "R", "S", "T", "U", "V", "W", "X", "Y", "Z">>
LowerCase ==
    <<"a", "b", "c", "d", "e", "f", "g", "h", "i", "j", "k", "l", "m",
      "n", "o", "p", "q", "r", "s", "t", "u", "v", "w", "x", "y", "z">>
Digits == <<"0", "1", "2", "3", "4", "5", "6", "7", "8", "9">>

\* str.lower(), one character.
LowerChar(c) ==
    IF \E i \in DOMAIN UpperCase : UpperCase[i] = c
    THEN LowerCase[CHOOSE i \in DOMAIN UpperCase : UpperCase[i] = c]
    ELSE c

\* str.lower()
Lower(s) == [i \in 1..Len(s) |-> LowerChar(s[i])]

RECURSIVE LStrip(_)
LStrip(s) == IF Len(s) > 0 /\ s[1] \in Whitespace THEN LStrip(Tail(s)) ELSE s

RECURSIVE RStrip(_)
RStrip(s) ==
    IF Len(s) > 0 /\ s[Len(s)] \in Whitespace
    THEN RStrip(SubSeq(s, 1, Len(s) - 1))
    ELSE s

\* str.strip()
Strip(s) == RStrip(LStrip(s))

\* str.count(c) for a one-character c
Count(s, c) == Cardinality({i \in 1..Len(s) : s[i] = c})

\* str.replace(c, r) for a one-character c and a str r (computed half by half)
RECURSIVE Replace(_, _, _)
Replace(s, c, r) ==
    IF Len(s) = 0 THEN << >>
    ELSE IF Len(s) = 1 THEN (IF s[1] = c THEN r ELSE s)
    ELSE Replace(SubSeq(s, 1, Len(s) \div 2), c, r)
         \o Replace(SubSeq(s, (Len(s) \div 2) + 1, Len(s)), c, r)

\* s[:n]
Slice(s, n) == SubSeq(s, 1, IF Len(s) < n THEN Len(s) ELSE n)

\* str.split(c) for a one-character c
RECURSIVE Split(_, _)
Split(s, c) ==
    IF \A i \in 1..Len(s) : s[i] # c THEN << s >>
    ELSE LET i == CHOOSE k \in 1..Len(s) : s[k] = c /\ \A j \in 1..(k - 1) : s[j] # c
         IN  << SubSeq(s, 1, i - 1) >> \o Split(SubSeq(s, i + 1, Len(s)), c)

\* sep.join(parts)
RECURSIVE Join(_, _)
Join(sep, parts) ==
    IF Len(parts) = 0 THEN << >>
    ELSE IF Len(parts) = 1 THEN parts[1]
    ELSE parts[1] \o sep \o Join(sep, Tail(parts))

\* sub in s, for two strs
Contains(s, sub) ==
    \E i \in 0..(Len(s) - Len(sub)) : SubSeq(s, i + 1, i + Len(sub)) = sub

\* str(n) for an int n >= 0
RECURSIVE IntToStr(_)
IntToStr(n) ==
    IF n < 10 THEN << Digits[n + 1] >>
    ELSE IntToStr(n \div 10) \o << Digits[(n % 10) + 1] >>

\* The escape both renderers apply to a preview: backtick -> backslash backtick.
EscapeBackticks(s) == Replace(s, "BACKTICK", << "\\", "BACKTICK" >>)

\* ------------------------------------------------------------ json.loads
\* A decoded JSON value carries its Python type: str (a character sequence),
\* list (a sequence of values), dict (a function from key strs to values),
\* int, bool and None.  The decoder follows json.decoder / json.scanner on the
\* part of JSON the modelled streams use: objects, arrays, strings with the
\* one-letter escapes, integers and the three literals (no \uXXXX escapes, no
\* fractions or exponents).
JStr(s) == [t |-> "str", v |-> s]
JList(l) == [t |-> "list", v |-> l]
JDict(f) == [t |-> "dict", v |-> f]
JNull == [t |-> "null", v |-> << >>]
EmptyDict == << >>

JsonFail == [ok |-> FALSE, val |-> JNull, next |-> 0]
JsonOk(v, i) == [ok |-> TRUE, val |-> v, next |-> i]

IsDigit(c) == \E k \in DOMAIN Digits : Digits[k] = c
DigitVal(c) == (CHOOSE k \in DOMAIN Digits : Digits[k] = c) - 1

\* s[i:i+len(lit)] == lit
HasAt(s, i, lit) ==
    /\ i + Len(lit) - 1 <= Len(s)
    /\ SubSeq(s, i, i + Len(lit) - 1) = lit

\* json.decoder.WHITESPACE.match(s, i).end()
RECURSIVE SkipWs(_, _)
SkipWs(s, i) == IF i <= Len(s) /\ s[i] \in Whitespace THEN SkipWs(s, i + 1) ELSE i

\* The character a backslash escape stands for (json.decoder.BACKSLASH).
Unescape(c) ==
    CASE c = "n" -> "\n"
      [] c = "t" -> "\t"
      [] c = "r" -> "\r"
      [] c = "b" -> "BACKSPACE"
      [] c = "f" -> "FORMFEED"
      [] OTHER -> c

\* The end of the run of plain characters from place i on: the place of the next
\* quote, backslash or control character, or Len(s) + 1 (json.decoder.STRINGCHUNK).
ChunkEnd(s, i) ==
    LET stops == {j \in i..Len(s) : s[j] \in {"\"", "\\", "\n", "\t", "\r"}}
    IN  IF stops = {} THEN Len(s) + 1 ELSE CHOOSE j \in stops : \A k \in stops : j <= k

\* json.decoder.py_scanstring (strict), i the place after the opening quote
RECURSIVE ScanString(_, _, _)
ScanString(s, i, acc) ==
    LET j == ChunkEnd(s, i)
        content == acc \o SubSeq(s, i, j - 1)
    IN  IF j > Len(s) THEN JsonFail
        ELSE IF s[j] = "\"" THEN JsonOk(content, j + 1)
        ELSE IF s[j] = "\\"
        THEN IF j + 1 <= Len(s) /\ s[j + 1] \in {"\"", "\\", "/", "b", "f", "n", "r", "t"}
             THEN ScanString(s, j + 2, Append(content, Unescape(s[j + 1])))
             ELSE JsonFail
        ELSE JsonFail

RECURSIVE ScanDigits(_, _, _)
ScanDigits(s, i, acc) ==
    IF i <= Len(s) /\ IsDigit(s[i])
    THEN ScanDigits(s, i + 1, acc * 10 + DigitVal(s[i]))
    ELSE [val |-> acc, next |-> i]

\* json.scanner.NUMBER_RE, integer part
ScanNumber(s, i) ==
    LET neg == s[i] = "-"
        j == IF neg THEN i + 1 ELSE i
    IN  IF j > Len(s) \/ ~IsDigit(s[j]) THEN JsonFail
        ELSE IF s[j] = "0" THEN JsonOk([t |-> "int", v |-> 0], j + 1)
        ELSE LET d == ScanDigits(s, j, 0)
             IN  JsonOk([t |-> "int", v |-> IF neg THEN 0 - d.val ELSE d.val], d.next)

RECURSIVE ScanValue(_, _)
RECURSIVE ScanObject(_, _, _)
RECURSIVE ScanArray(_, _, _)

\* json.scanner.py_make_scanner._scan_once
ScanValue(s, i) ==
    IF i > Len(s) THEN JsonFail
    ELSE IF s[i] = "\""
    THEN LET r == ScanString(s, i + 1, << >>)
         IN  IF r.ok THEN JsonOk(JStr(r.val), r.next) ELSE JsonFail
    ELSE IF s[i] = "{"
    THEN LET j == SkipWs(s, i + 1)
         IN  IF j <= Len(s) /\ s[j] = "}" THEN JsonOk(JDict(EmptyDict), j + 1)
             ELSE ScanObject(s, j, EmptyDict)
    ELSE IF s[i] = "["
    THEN LET j == SkipWs(s, i + 1)
         IN  IF j <= Len(s) /\ s[j] = "]" THEN JsonOk(JList(<< >>), j + 1)
             ELSE ScanArray(s, j, << >>)
    ELSE IF HasAt(s, i, <<"n", "u", "l", "l">>) THEN JsonOk(JNull, i + 4)
    ELSE IF HasAt(s, i, <<"t", "r", "u", "e">>) THEN JsonOk([t |-> "bool", v |-> TRUE], i + 4)
    ELSE IF HasAt(s, i, <<"f", "a", "l", "s", "e">>)
    THEN JsonOk([t |-> "bool", v |-> FALSE], i + 5)
    ELSE IF s[i] = "-" \/ IsDigit(s[i]) THEN ScanNumber(s, i)
    ELSE JsonFail

\* JSONObject after the value v of key: a repeated key keeps its last value
ObjectValue(s, key, v, acc) ==
    IF ~v.ok THEN JsonFail
    ELSE LET e == SkipWs(s, v.next)
             acc2 == (key :> v.val) @@ acc
         IN  IF e > Len(s) THEN JsonFail
             ELSE IF s[e] = "}" THEN JsonOk(JDict(acc2), e + 1)
             ELSE IF s[e] = "," THEN ScanObject(s, SkipWs(s, e + 1), acc2)
             ELSE JsonFail

\* JSONObject after the scan k of a key
ObjectKey(s, k, acc) ==
    IF ~k.ok THEN JsonFail
    ELSE LET c == SkipWs(s, k.next)
         IN  IF c > Len(s) \/ s[c] # ":" THEN JsonFail
             ELSE ObjectValue(s, k.val, ScanValue(s, SkipWs(s, c + 1)), acc)

\* json.decoder.JSONObject, i the place of the next key's opening quote
ScanObject(s, i, acc) ==
    IF i > Len(s) \/ s[i] # "\"" THEN JsonFail
    ELSE ObjectKey(s, ScanString(s, i + 1, << >>), acc)

\* JSONArray after the scan v of an element
ArrayValue(s, v, acc) ==
    IF ~v.ok THEN JsonFail
    ELSE LET e == SkipWs(s, v.next)
         IN  IF e > Len(s) THEN JsonFail
             ELSE IF s[e] = "]" THEN JsonOk(JList(Append(acc, v.val)), e + 1)
             ELSE IF s[e] = "," THEN ScanArray(s, SkipWs(s, e + 1), Append(acc, v.val))
             ELSE JsonFail

\* json.decoder.JSONArray, i the place of the next element
ScanArray(s, i, acc) == ArrayValue(s, ScanValue(s, i), acc)

\* json.loads(s) once the value is scanned: ok is FALSE where it raises JSONDecodeError
Loaded(s, r) ==
    IF r.ok /\ SkipWs(s, r.next) = Len(s) + 1
    THEN [ok |-> TRUE, val |-> r.val]
    ELSE [ok |-> FALSE, val |-> JNull]

\* json.loads(s)
JsonLoads(s) == Loaded(s, ScanValue(s, SkipWs(s, 1)))

\* ------------------------------------------------------------ constants of the code
\* api_client.search(chat_history[-1][0], 3)
SearchFanout == 3
\* snippet.get_preview(5)
PreviewLines == 5
\* file_contents_split[:3]
FilePreviewLines == 3
\* arguments["title"]...[:50]
BranchMaxLen == 50

\* ------------------------------------------------------------ rendering
\* dict.get(k): None when the key is absent
Get(d, k) == IF k \in DOMAIN d THEN Some(d[k]) ELSE None

\* Snippet.get_preview(n): the first n lines of the snippet's content
GetPreview(snippet, n) == Join(<<"\n">>, Slice(Split(snippet.content, "\n"), n))

\* The text handle_message_stream renders for the snippets a search returned.
RenderSnippets(snippets) ==
    SNIPPETS_HEADER \o
    Join(<<"\n">>,
         [i \in 1..Len(snippets) |->
            snippets[i].denotation \o FENCE_PYTHON
            \o EscapeBackticks(GetPreview(snippets[i], PreviewLines)) \o FENCE_END])

\* The value add_file_to_dict stores for a file.
FilePreview(file_name, path_to_contents) ==
    LET file_contents_split == Split(path_to_contents[file_name], "\n")
        length == Len(file_contents_split)
        preview == EscapeBackticks(Join(<<"\n">>, Slice(file_contents_split, FilePreviewLines)))
    IN  file_name \o <<":", "0", ":">> \o IntToStr(length) \o FENCE_PYTHON
        \o preview \o PREVIEW_END

\* file_to_str after build_string's loop over the selected files
RECURSIVE FillCache(_, _, _)
FillCache(cache, files, path_to_contents) ==
    IF Len(files) = 0 THEN cache
    ELSE FillCache(IF files[1] \in DOMAIN cache THEN cache
                   ELSE (files[1] :> FilePreview(files[1], path_to_contents)) @@ cache,
                   Tail(files), path_to_contents)

\* build_string's return value, given the filled cache
BuildString(files, cache) ==
    SNIPPETS_HEADER \o Join(<<"\n", "\n">>, [i \in 1..Len(files) |-> cache[files[i]]])

\* str(v) as an f-string or str.format applies it to a decoded scalar (the
\* modelled streams put no list or dict where a text is rendered)
PyStr(v) ==
    CASE v.t = "str" -> v.v
      [] v.t = "int" -> IF v.v < 0 THEN <<"-">> \o IntToStr(0 - v.v) ELSE IntToStr(v.v)
      [] v.t = "bool" -> IF v.v THEN <<"T", "r", "u", "e">> ELSE <<"F", "a", "l", "s", "e">>
      [] v.t = "null" -> NONE_TEXT

\* str(function_name) in the f-string of the function-call rendering
NameText(function_name) == IF function_name = None THEN NONE_TEXT ELSE function_name[1]

\* f"Calling function: `{function_name}`\n```json\n{raw_arguments}\n```"
RenderCall(function_name, raw_arguments) ==
    CALLING_PREFIX \o NameText(function_name) \o CALLING_MIDDLE \o raw_arguments \o FENCE_END

\* "\n".join([f"* `{item['file_path']}`: {item['instructions']}" for item in plan])
RenderPlan(items) ==
    Join(<<"\n">>,
         [i \in 1..Len(items) |->
            PLAN_ITEM_HEAD \o PyStr(items[i].v[KEY_FILE_PATH]) \o PLAN_ITEM_MIDDLE
            \o PyStr(items[i].v[KEY_INSTRUCTIONS])])

\* pr_summary_template.format(title=..., summary=..., plan=...)
RenderTemplate(title, summary, plan) ==
    TEMPLATE_HEAD \o title \o TEMPLATE_AFTER_TITLE \o summary \o TEMPLATE_AFTER_SUMMARY
    \o plan \o TEMPLATE_TAIL

\* arguments["title"].lower().replace(" ", "_").replace("-", "_")[:50]
DeriveBranch_KeepHyphens(title) ==
    Slice(Replace(Lower(title), " ", <<"_">>), BranchMaxLen)

\* arguments["title"].lower().replace(" ", "_").replace("-", "_")[:50]
DeriveBranch(title) ==
    Slice(Replace(Replace(Lower(title), " ", <<"_">>), "-", <<"_">>), BranchMaxLen)

\* key in arguments: "TypeError" where the decoded value supports no membership test
PyIn(key, arguments) ==
    CASE arguments.t = "dict" -> IF key \in DOMAIN arguments.v THEN "True" ELSE "False"
      [] arguments.t = "list" ->
            IF \E i \in 1..Len(arguments.v) :
                  arguments.v[i].t = "str" /\ arguments.v[i].v = key
            THEN "True" ELSE "False"
      [] arguments.t = "str" -> IF Contains(arguments.v, key) THEN "True" ELSE "False"
      [] OTHER -> "TypeError"

\* The items the comprehensions over a plan visit (a non-list plan is visited only
\* when it is empty, see PlanError).
PlanItems(plan) == IF plan.t = "list" THEN plan.v ELSE << >>

\* What iterating the plan and subscripting each item raises: "none" when nothing.
PlanError(plan) ==
    CASE plan.t = "list" ->
            IF \A i \in 1..Len(plan.v) :
                  /\ plan.v[i].t = "dict"
                  /\ KEY_FILE_PATH \in DOMAIN plan.v[i].v
                  /\ KEY_INSTRUCTIONS \in DOMAIN plan.v[i].v
            THEN "none"
            ELSE LET i == CHOOSE k \in 1..Len(plan.v) :
                            /\ ~ (/\ plan.v[k].t = "dict"
                                  /\ KEY_FILE_PATH \in DOMAIN plan.v[k].v
                                  /\ KEY_INSTRUCTIONS \in DOMAIN plan.v[k].v)
                            /\ \A j \in 1..(k - 1) :
                                  /\ plan.v[j].t = "dict"
                                  /\ KEY_FILE_PATH \in DOMAIN plan.v[j].v
                                  /\ KEY_INSTRUCTIONS \in DOMAIN plan.v[j].v
                 IN  IF plan.v[i].t = "dict" THEN "KeyError" ELSE "TypeError"
      [] plan.t = "dict" -> IF DOMAIN plan.v = {} THEN "none" ELSE "TypeError"
      [] plan.t = "str" -> IF Len(plan.v) = 0 THEN "none" ELSE "TypeError"
      [] OTHER -> "TypeError"

\* The assert statements without the one on "plan".
AssertError_NoPlan(arguments) ==
    LET t == PyIn(KEY_TITLE, arguments)
        s == PyIn(KEY_SUMMARY, arguments)
    IN  IF t # "True" THEN (IF t = "False" THEN "AssertionError" ELSE "TypeError")
        ELSE IF s # "True" THEN "AssertionError"
        ELSE "none"

\* The assert statements of lines 163-165, in order: "none" when all pass.
AssertError(arguments) ==
    LET t == PyIn(KEY_TITLE, arguments)
        s == PyIn(KEY_SUMMARY, arguments)
        p == PyIn(KEY_PLAN, arguments)
    IN  IF t # "True" THEN (IF t = "False" THEN "AssertionError" ELSE "TypeError")
        ELSE IF s # "True" THEN "AssertionError"
        ELSE IF p # "True" THEN "AssertionError"
        ELSE "none"

\* arguments after the branch default of lines 166-167 (a dict with a str title)
WithBranch(arguments) ==
    IF KEY_BRANCH \in DOMAIN arguments.v THEN arguments
    ELSE JDict((KEY_BRANCH :> JStr(DeriveBranch(arguments.v[KEY_TITLE].v))) @@ arguments.v)

\* Every function name taken as the supported one.
IsSupported_Any(function_name) == TRUE

\* if function_name == "create_pr"
IsSupported(function_name) == function_name = CREATE_PR

\* Lines 160-172 for a non-empty function name: what is raised ("none" when
\* nothing), and then the arguments to store and the text to render.
FunctionCallResult(function_name, raw_arguments) ==
    LET parsed == JsonLoads(raw_arguments)
        arguments == parsed.val
        error ==
            IF ~parsed.ok THEN "JSONDecodeError"
            ELSE IF ~IsSupported(function_name) THEN "NotImplementedError"
            ELSE IF AssertError(arguments) # "none" THEN AssertError(arguments)
            ELSE IF arguments.t # "dict" THEN "TypeError"
            ELSE IF ~ ({KEY_TITLE, KEY_SUMMARY, KEY_PLAN} \subseteq DOMAIN arguments.v)
            THEN "KeyError"
            ELSE IF KEY_BRANCH \notin DOMAIN arguments.v /\ arguments.v[KEY_TITLE].t # "str"
            THEN "AttributeError"
            ELSE PlanError(arguments.v[KEY_PLAN])
        stored == WithBranch(arguments)
    IN  IF error # "none" THEN [error |-> error, arguments |-> JNull, text |-> << >>]
        ELSE [error |-> "none",
              arguments |-> stored,
              text |-> RenderTemplate(PyStr(stored.v[KEY_TITLE]), PyStr(stored.v[KEY_SUMMARY]),
                                      RenderPlan(PlanItems(stored.v[KEY_PLAN])))]

\* ------------------------------------------------------------ inputs
\* What the user types into the message box.
Msgs == {MSG_OK_UPPER_WS, MSG_OKAY, MSG_OK_WAIT}
\* The one message of the stream-aggregator specification.
StreamMsgs == {<<"h", "i">>}

\* The files of the repository loaded at construction (all_files, path_to_contents).
PathToContents ==
    (FILE_A :> <<"x", " ", "=", " ", "BACKTICK", "1", "BACKTICK", "\n", "y", "\n", "z", "\n", "w">>)
\* The values the multiselect can take.
FileSelections == {<< >>, <<FILE_A>>}

\* The repository dropdown: the configured repository, and no selection.
RepoChoices == {INITIAL_REPO, << >>}
\* What api_client.get_installation_id() returns when it does not raise.
InstallationIds == {7}

\* What api_client.search returns when it does not raise.
SNIPPET_1 ==
    [denotation |-> <<"a", ".", "p", "y", ":", "0", ":", "6">>,
     content |-> <<"l", "1", "\n", "BACKTICK", "l", "2", "BACKTICK", "\n", "l", "3", "\n",
                   "l", "4", "\n", "l", "5", "\n", "l", "6">>]
SearchResults == {<< >>, <<SNIPPET_1>>}

\* html_url of the pull request api_client.create_pr returns.
Urls == {<<"h", "t", "t", "p", ":", "/", "/", "p", "r", "/", "1">>}

\* A title longer than the branch limit
LONG_TITLE ==
    LONG_TITLE_UNIT \o LONG_TITLE_UNIT \o LONG_TITLE_UNIT \o LONG_TITLE_UNIT \o LONG_TITLE_UNIT
    \o LONG_TITLE_UNIT \o LONG_TITLE_UNIT \o LONG_TITLE_UNIT \o LONG_TITLE_UNIT
ARGS_LONG_TITLE ==
    <<"{", "\"", "t", "i", "t", "l", "e", "\"", ":", "\"">> \o LONG_TITLE
    \o <<"\"", ",", "\"", "s", "u", "m", "m", "a", "r", "y", "\"", ":", "\"", "S", "\"", ",",
         "\"", "p", "l", "a", "n", "\"", ":", "[", "]", "}">>

\* Stream fragments.  A fragment is a dict with the optional keys content and
\* function_call; a function_call is a dict with the optional keys name and arguments.
ContentChunk(text) == [content |-> text]
CallChunk(name, arguments) == [function_call |-> [name |-> name, arguments |-> arguments]]
ArgumentsChunk(arguments) == [function_call |-> [arguments |-> arguments]]
NameChunk(name) == [function_call |-> [name |-> name]]

\* A stream: its fragments, and whether it then ends or raises (a transport error).
Ending(chunks) == [chunks |-> chunks, raises |-> FALSE]
Raising(chunks) == [chunks |-> chunks, raises |-> TRUE]

\* The streams api_client.stream_chat produces in the session specification.
Streams ==
    { Ending(<<ContentChunk(TXT_HEL), ContentChunk(TXT_LO)>>),
      Ending(<<CallChunk(CREATE_PR, SubSeq(ARGS_FULL, 1, 4)),
               ArgumentsChunk(SubSeq(ARGS_FULL, 5, Len(ARGS_FULL)))>>),
      Raising(<<ContentChunk(TXT_HEL)>>) }

\* The fragments the stream-aggregator specification combines freely.
Chunks ==
    { ContentChunk(TXT_HEL), ContentChunk(TXT_LO),
      CallChunk(CREATE_PR, ARGS_PART_1), ArgumentsChunk(ARGS_PART_2),
      NameChunk(FN_OTHER) }

\* Complete function calls the stream-aggregator specification adds to them.
CallStreams ==
    { <<CallChunk(CREATE_PR, ARGS_FULL)>>,
      <<CallChunk(CREATE_PR, ARGS_WITH_BRANCH)>>,
      <<CallChunk(CREATE_PR, ARGS_LONG_TITLE)>>,
      <<CallChunk(CREATE_PR, ARGS_NO_TITLE)>>,
      <<CallChunk(CREATE_PR, ARGS_NO_SUMMARY)>>,
      <<CallChunk(CREATE_PR, ARGS_NO_PLAN)>>,
      <<CallChunk(FN_OTHER, ARGS_EMPTY_OBJECT)>>,
      <<CallChunk(FN_OTHER, ARGS_PART_1), ArgumentsChunk(ARGS_PART_2),
        CallChunk(CREATE_PR, << >>)>>,
      <<ContentChunk(<< >>), [content |-> TXT_HEL, function_call |-> << >>]>> }

\* Every stream of at most MaxChunks fragments, and the complete calls.
AllStreams ==
    {Ending(chunks) : chunks \in (UNION {[1..k -> Chunks] : k \in 0..MaxChunks}) \cup CallStreams}
    \cup {Raising(<<ContentChunk(TXT_HEL)>>)}

\* ------------------------------------------------------------ state
VARIABLES
    \* widgets
    repo_full_name,     \* value of the repository dropdown
    chatbot,            \* value of the chat widget: a list of [user, assistant] pairs
    snippets_text,      \* value of the snippets markdown block
    msg,                \* the message box: its value and whether it is interactive
    \* module globals
    proposed_pr,        \* None or the stored arguments of a create_pr call
    selected_files,
    file_to_str,
    installation_id,
    \* the event chain submit -> stream -> re-enable
    pending,            \* stream stages waiting for the queue, oldest first; each
                        \* says whether its submit stage returned (TRUE) or raised
    reenable,           \* re-enable stages whose stream stage has ended
    \* the frame of the running handle_message_stream generator
    pc,                 \* "idle", or the line of the yield (or loop head) it is at
    chat_history,
    local,              \* its other locals
    \* observation of the current (or last) run of handle_message_stream
    turn,               \* its inputs, and how and at which line it ended
    calls,              \* the api_client calls it made with their arguments, and the
                        \* html_url of each pull request create_pr returned
    emitted,            \* the assistant texts it yielded while consuming the stream
    creations,          \* create_pr calls that returned since proposed_pr was last stored
    \* counters bounding the session
    turns,
    ui_events

widgets == <<repo_full_name, chatbot, snippets_text, msg>>
globals == <<proposed_pr, selected_files, file_to_str, installation_id>>
counters == <<turns, ui_events>>
vars ==
    <<widgets, globals, pending, reenable, pc, chat_history, local, turn, calls, emitted,
      creations, counters>>

NoLocals ==
    [snippets_text |-> << >>, snippets |-> << >>, stream |-> Ending(<< >>), pos |-> 0,
     function_name |-> None, raw_arguments |-> << >>, arguments |-> JNull]
NoCalls ==
    [search |-> << >>, found |-> << >>, create_pr |-> << >>, html_urls |-> << >>,
     stream_chat |-> << >>]

Init ==
    /\ repo_full_name = INITIAL_REPO
    /\ chatbot = << >>
    /\ snippets_text = INITIAL_SNIPPETS_TEXT
    /\ msg = [value |-> << >>, interactive |-> TRUE]
    /\ proposed_pr = None
    /\ selected_files = << >>
    /\ file_to_str = EmptyDict
    /\ installation_id = None
    /\ pending = << >>
    /\ reenable = 0
    /\ pc = "idle"
    /\ chat_history = << >>
    /\ local = NoLocals
    /\ turn = [accepted |-> FALSE, chat_history |-> << >>, snippets_text |-> << >>,
               proposed_pr |-> None, outcome |-> "none", at |-> "idle"]
    /\ calls = NoCalls
    /\ emitted = << >>
    /\ creations = 0
    /\ turns = 0
    /\ ui_events = 0

\* ------------------------------------------------------------ helpers
\* chat_history[-1][1] = text
SetAssistant(h, text) == [h EXCEPT ![Len(h)] = << h[Len(h)][1], Some(text) >>]
\* chat_history[-1][0] and chat_history[-1][1], of a non-empty history
LastUser(h) == h[Len(h)][1]
LastAssistant(h) == h[Len(h)][2]

\* bool(proposed_pr)
Truthy(pr) == pr # None /\ DOMAIN pr[1].v # {}

\* A search whenever the block is not empty (the line-break count is dropped).
SearchNeeded_AnyText(text) == Len(text) > 0

\* snippets_text and snippets_text.strip().count("\n") == 0
SearchNeeded(text) == Len(text) > 0 /\ Count(Strip(text), "\n") = 0

\* The confirmation test without the strip().
IsConfirmation_NoStrip(user_message) == Lower(user_message) \in {OKAY_TEXT, OK_TEXT}

\* chat_history[-1][0].strip().lower() in ("okay", "ok"), of a str
IsConfirmation(user_message) == Lower(Strip(user_message)) \in {OKAY_TEXT, OK_TEXT}

\* A yield of handle_message_stream: the outputs reach the two widgets.
Yield(h, text) == chatbot' = h /\ snippets_text' = text

\* The generator returns (outcome "returned") or raises: the stream stage ends
\* and the chain's re-enable stage is due.
Ends(outcome) ==
    /\ pc' = "idle"
    /\ reenable' = reenable + 1
    /\ turn' = [turn EXCEPT !.outcome = outcome, !.at = pc]

\* ------------------------------------------------------------ widget events
\* msg.submit(handle_message_submit, [repo_full_name, msg, chatbot], [msg, chatbot]):
\* the user types user_message and submits it.  The .then stage follows whether or
\* not the handler raised.
handle_message_submit(limit, messages) ==
    /\ msg.interactive
    /\ turns + ui_events < limit
    /\ \E user_message \in messages :
          IF Len(repo_full_name) = 0
          THEN \* raise Exception("Set the repository name first"): no output is set
               /\ msg' = [msg EXCEPT !.value = user_message]
               /\ UNCHANGED chatbot
               /\ pending' = Append(pending, FALSE)
          ELSE /\ msg' = [value |-> << >>, interactive |-> FALSE]
               /\ chatbot' = Append(chatbot, << Some(user_message), None >>)
               /\ pending' = Append(pending, TRUE)
    /\ turns' = turns + 1
    /\ UNCHANGED <<repo_full_name, snippets_text, globals, reenable, pc, chat_history, local,
                   turn, calls, emitted, creations, ui_events>>

\* response.then(lambda: gr.update(interactive=True), None, [msg])
reenable_msg ==
    /\ reenable > 0
    /\ reenable' = reenable - 1
    /\ msg' = [msg EXCEPT !.interactive = TRUE]
    /\ UNCHANGED <<repo_full_name, chatbot, snippets_text, globals, pending, pc, chat_history,
                   local, turn, calls, emitted, creations, counters>>

\* clear = gr.ClearButton([msg, chatbot, snippets_text])
clear ==
    /\ turns + ui_events < MaxInteractions
    /\ ui_events' = ui_events + 1
    /\ msg' = [msg EXCEPT !.value = << >>]
    /\ chatbot' = << >>
    /\ snippets_text' = << >>
    /\ UNCHANGED <<repo_full_name, globals, pending, reenable, pc, chat_history, local, turn,
                   calls, emitted, creations, turns>>

\* file_names.change(file_names_change, [file_names], [file_names, snippets_text])
file_names_change ==
    /\ turns + ui_events < MaxInteractions
    /\ ui_events' = ui_events + 1
    /\ \E file_names \in FileSelections :
          /\ file_names # selected_files
          /\ selected_files' = file_names
          /\ file_to_str' = FillCache(file_to_str, file_names, PathToContents)
          /\ snippets_text' = BuildString(file_names, file_to_str')
    /\ UNCHANGED <<repo_full_name, chatbot, msg, proposed_pr, installation_id, pending,
                   reenable, pc, chat_history, local, turn, calls, emitted, creations, turns>>

\* repo_full_name.change(repo_name_change, [repo_full_name], [msg])
repo_name_change(limit) ==
    /\ turns + ui_events < limit
    /\ ui_events' = ui_events + 1
    /\ \E name \in RepoChoices \ {repo_full_name} :
          /\ repo_full_name' = name
          /\ \/ \* get_installation_id returns a truthy id: return ""
                \E id \in InstallationIds \ {0} :
                   /\ installation_id' = Some(id)
                   /\ msg' = [msg EXCEPT !.value = << >>]
             \/ \* it raises
                UNCHANGED <<installation_id, msg>>
    /\ UNCHANGED <<chatbot, snippets_text, proposed_pr, selected_files, file_to_str, pending,
                   reenable, pc, chat_history, local, turn, calls, emitted, creations, turns>>

\* ------------------------------------------------------------ handle_message_stream
\* The snippets of the previous run are kept.
InitialSnippets_Carried(previous) == previous

\* Line 105: snippets = [], whatever the previous run left
InitialSnippets(previous) == << >>

\* Lines 103-106: the queue starts the oldest waiting stream stage; the generator
\* reads the two widgets and yields them back.
stream_start ==
    /\ pc = "idle"
    /\ Len(pending) > 0
    /\ pending' = Tail(pending)
    /\ pc' = "L106"
    /\ chat_history' = chatbot
    /\ local' = [NoLocals EXCEPT !.snippets_text = snippets_text,
                                 !.snippets = InitialSnippets(local.snippets)]
    /\ turn' = [accepted |-> Head(pending), chat_history |-> chatbot,
                snippets_text |-> snippets_text, proposed_pr |-> proposed_pr,
                outcome |-> "running", at |-> "idle"]
    /\ calls' = NoCalls
    /\ emitted' = << >>
    /\ UNCHANGED <<widgets, globals, reenable, creations, counters>>

\* Lines 107-110: a search is needed.
search_begin ==
    /\ pc = "L106"
    /\ SearchNeeded(local.snippets_text)
    /\ IF Len(chat_history) = 0
       THEN \* chat_history[-1]: IndexError
            /\ Ends("IndexError")
            /\ UNCHANGED <<chatbot, snippets_text, chat_history>>
       ELSE /\ chat_history' = SetAssistant(chat_history, SEARCHING_TEXT)
            /\ Yield(chat_history', local.snippets_text)
            /\ pc' = "L110"
            /\ UNCHANGED <<reenable, turn>>
    /\ UNCHANGED <<repo_full_name, msg, globals, pending, local, calls, emitted, creations,
                   counters>>

\* Lines 111-121: the search call and the rendering of what it returned.
search_call ==
    /\ pc = "L110"
    /\ \/ \E snippets \in SearchResults :
             /\ calls' = [calls EXCEPT
                    !.search = Append(@, << LastUser(chat_history), SearchFanout >>),
                    !.found = Append(@, snippets)]
             /\ chat_history' = SetAssistant(chat_history, FOUND_TEXT)
             /\ local' = [local EXCEPT !.snippets = snippets,
                                       !.snippets_text = RenderSnippets(snippets)]
             /\ Yield(chat_history', local'.snippets_text)
             /\ pc' = "L121"
             /\ UNCHANGED <<reenable, turn>>
       \/ \* api_client.search raises
          /\ calls' = [calls EXCEPT
                 !.search = Append(@, << LastUser(chat_history), SearchFanout >>)]
          /\ Ends("SearchError")
          /\ UNCHANGED <<chatbot, snippets_text, chat_history, local>>
    /\ UNCHANGED <<repo_full_name, msg, globals, pending, emitted, creations, counters>>

\* The generator is at the confirmation check of line 124.
AtConfirmationCheck ==
    \/ pc = "L121"
    \/ pc = "L106" /\ ~SearchNeeded(local.snippets_text)

\* What evaluating line 124 gives: "True", "False", or the exception it raises.
ConfirmationCheck ==
    IF ~Truthy(proposed_pr) THEN "False"
    ELSE IF Len(chat_history) = 0 THEN "IndexError"
    ELSE IF LastUser(chat_history) = None THEN "AttributeError"
    ELSE IF IsConfirmation(LastUser(chat_history)[1]) THEN "True"
    ELSE "False"

\* Lines 124-126: the confirmation is recognised.
confirm ==
    /\ AtConfirmationCheck
    /\ ConfirmationCheck = "True"
    /\ chat_history' = SetAssistant(chat_history, CREATING_PR_TEXT)
    /\ Yield(chat_history', local.snippets_text)
    /\ pc' = "L126"
    /\ UNCHANGED <<repo_full_name, msg, globals, pending, reenable, local, turn, calls, emitted,
                   creations, counters>>

\* Line 124 raises.
confirm_raises ==
    /\ AtConfirmationCheck
    /\ ConfirmationCheck \in {"IndexError", "AttributeError"}
    /\ Ends(ConfirmationCheck)
    /\ UNCHANGED <<widgets, globals, pending, chat_history, local, calls, emitted, creations,
                   counters>>

\* The create_pr arguments with the title and the summary in each other's place.
CreatePrArguments_Swapped(pr, messages) ==
    [file_change_requests |->
        [i \in 1..Len(PlanItems(pr.v[KEY_PLAN])) |->
            << PlanItems(pr.v[KEY_PLAN])[i].v[KEY_FILE_PATH],
               PlanItems(pr.v[KEY_PLAN])[i].v[KEY_INSTRUCTIONS] >>],
     pull_request |-> [title |-> pr.v[KEY_SUMMARY],
                       content |-> pr.v[KEY_TITLE],
                       branch_name |-> pr.v[KEY_BRANCH]],
     messages |-> messages]

\* file_change_requests, pull_request and messages of the create_pr call
CreatePrArguments(pr, messages) ==
    [file_change_requests |->
        [i \in 1..Len(PlanItems(pr.v[KEY_PLAN])) |->
            << PlanItems(pr.v[KEY_PLAN])[i].v[KEY_FILE_PATH],
               PlanItems(pr.v[KEY_PLAN])[i].v[KEY_INSTRUCTIONS] >>],
     pull_request |-> [title |-> pr.v[KEY_TITLE],
                       content |-> pr.v[KEY_SUMMARY],
                       branch_name |-> pr.v[KEY_BRANCH]],
     messages |-> messages]

\* A failed create_pr call drops the pending proposal.
create_pr_call_DropsOnFailure ==
    /\ pc = "L126"
    /\ \/ \E html_url \in Urls :
             /\ calls' = [calls EXCEPT
                    !.create_pr = Append(@, CreatePrArguments(proposed_pr[1], chat_history)),
                    !.html_urls = Append(@, html_url)]
             /\ chat_history' = SetAssistant(chat_history, PR_CREATED_PREFIX \o html_url)
             /\ Yield(chat_history', local.snippets_text)
             /\ pc' = "L137"
             /\ creations' = creations + 1
             /\ UNCHANGED <<reenable, turn, proposed_pr>>
       \/ \* api_client.create_pr raises
          /\ calls' = [calls EXCEPT
                 !.create_pr = Append(@, CreatePrArguments(proposed_pr[1], chat_history))]
          /\ Ends("CreatePrError")
          /\ proposed_pr' = None
          /\ UNCHANGED <<chatbot, snippets_text, chat_history, creations>>
    /\ UNCHANGED <<repo_full_name, msg, selected_files, file_to_str, installation_id, pending,
                   local, emitted, counters>>

\* Lines 127-137: the create_pr call and the message with the URL it returned.
create_pr_call ==
    /\ pc = "L126"
    /\ \/ \E html_url \in Urls :
             /\ calls' = [calls EXCEPT
                    !.create_pr = Append(@, CreatePrArguments(proposed_pr[1], chat_history)),
                    !.html_urls = Append(@, html_url)]
             /\ chat_history' = SetAssistant(chat_history, PR_CREATED_PREFIX \o html_url)
             /\ Yield(chat_history', local.snippets_text)
             /\ pc' = "L137"
             /\ creations' = creations + 1
             /\ UNCHANGED <<reenable, turn>>
       \/ \* api_client.create_pr raises
          /\ calls' = [calls EXCEPT
                 !.create_pr = Append(@, CreatePrArguments(proposed_pr[1], chat_history))]
          /\ Ends("CreatePrError")
          /\ UNCHANGED <<chatbot, snippets_text, chat_history, creations>>
    /\ UNCHANGED <<repo_full_name, msg, globals, pending, local, emitted, counters>>

\* Without the return the generator goes on to lines 141-143.
confirm_return_FallsThrough ==
    /\ pc = "L137"
    /\ chat_history' = Append(chat_history, << None, Some(FETCHING_TEXT) >>)
    /\ Yield(chat_history', local.snippets_text)
    /\ pc' = "L143"
    /\ UNCHANGED <<repo_full_name, msg, globals, pending, reenable, local, turn, calls, emitted,
                   creations, counters>>

\* Line 138: return
confirm_return ==
    /\ pc = "L137"
    /\ Ends("returned")
    /\ UNCHANGED <<widgets, globals, pending, chat_history, local, calls, emitted, creations,
                   counters>>

\* Lines 141-143: no confirmation; a new history element for the response.
generate_begin ==
    /\ AtConfirmationCheck
    /\ ConfirmationCheck = "False"
    /\ chat_history' = Append(chat_history, << None, Some(FETCHING_TEXT) >>)
    /\ Yield(chat_history', local.snippets_text)
    /\ pc' = "L143"
    /\ UNCHANGED <<repo_full_name, msg, globals, pending, reenable, local, turn, calls, emitted,
                   creations, counters>>

\* Lines 144-148: the stream_chat call; streams is what it may produce.
stream_chat_call(streams) ==
    /\ pc = "L143"
    /\ chat_history' = SetAssistant(chat_history, << >>)
    /\ calls' = [calls EXCEPT
                    !.stream_chat = Append(@, [messages |-> chat_history',
                                               snippets |-> local.snippets])]
    /\ \E stream \in streams :
          local' = [local EXCEPT !.stream = stream, !.pos = 0,
                                 !.function_name = Some(<< >>), !.raw_arguments = << >>]
    /\ pc' = "L149"
    /\ UNCHANGED <<widgets, globals, pending, reenable, turn, emitted, creations, counters>>

\* Line 149: the loop takes the next fragment, or the stream has ended.
stream_next ==
    /\ pc = "L149"
    /\ IF local.pos < Len(local.stream.chunks)
       THEN local' = [local EXCEPT !.pos = @ + 1] /\ pc' = "L150"
       ELSE ~local.stream.raises /\ UNCHANGED local /\ pc' = "L160"
    /\ UNCHANGED <<widgets, globals, pending, reenable, chat_history, turn, calls, emitted,
                   creations, counters>>

\* Line 149: the stream raises where it would have ended (a transport error).
stream_raises ==
    /\ pc = "L149"
    /\ local.pos = Len(local.stream.chunks)
    /\ local.stream.raises
    /\ Ends("StreamError")
    /\ UNCHANGED <<widgets, globals, pending, chat_history, local, calls, emitted, creations,
                   counters>>

\* The fragment the loop body is working on.
Chunk == local.stream.chunks[local.pos]
\* bool(chunk.get(key)) for a str or dict value
HasTruthy(d, key) == key \in DOMAIN d /\ DOMAIN d[key] # {}

\* function_name or function_call.get("name")
NameAfter(function_name, function_call) ==
    IF function_name # None /\ Len(function_name[1]) > 0 THEN function_name
    ELSE Get(function_call, "name")

\* The token replaces the text instead of extending it.
AppendToken_Overwrite(text, token) == token

\* chat_history[-1][1] += token
AppendToken(text, token) == text \o token

\* Lines 150-153: a content fragment is appended and the text is yielded.
stream_content ==
    /\ pc = "L150"
    /\ IF HasTruthy(Chunk, "content")
       THEN /\ chat_history' =
                  SetAssistant(chat_history,
                               AppendToken(LastAssistant(chat_history)[1], Chunk.content))
            /\ Yield(chat_history', local.snippets_text)
            /\ emitted' = Append(emitted, LastAssistant(chat_history')[1])
       ELSE UNCHANGED <<chatbot, snippets_text, chat_history, emitted>>
    /\ pc' = "L154"
    /\ UNCHANGED <<repo_full_name, msg, globals, pending, reenable, local, turn, calls,
                   creations, counters>>

\* Lines 154-159: a function-call fragment extends the name and the argument buffer,
\* and the rendering of the call is yielded.
stream_function_call ==
    /\ pc = "L154"
    /\ IF ~HasTruthy(Chunk, "function_call")
       THEN /\ pc' = "L149"
            /\ UNCHANGED <<chatbot, snippets_text, chat_history, local, emitted, reenable,
                           turn>>
       ELSE LET function_call == Chunk.function_call
                function_name == NameAfter(local.function_name, function_call)
            IN  IF "arguments" \notin DOMAIN function_call
                THEN \* raw_arguments += None: TypeError
                     /\ Ends("TypeError")
                     /\ local' = [local EXCEPT !.function_name = function_name]
                     /\ UNCHANGED <<chatbot, snippets_text, chat_history, emitted>>
                ELSE /\ local' = [local EXCEPT
                                    !.function_name = function_name,
                                    !.raw_arguments = @ \o function_call.arguments]
                     /\ chat_history' =
                           SetAssistant(chat_history,
                                        RenderCall(function_name, local'.raw_arguments))
                     /\ Yield(chat_history', local.snippets_text)
                     /\ emitted' = Append(emitted, LastAssistant(chat_history')[1])
                     /\ pc' = "L149"
                     /\ UNCHANGED <<reenable, turn>>
    /\ UNCHANGED <<repo_full_name, msg, globals, pending, calls, creations, counters>>

\* Lines 160-173 and 175-176: the end of the stream.
stream_end ==
    /\ pc = "L160"
    /\ IF local.function_name = None \/ Len(local.function_name[1]) = 0
       THEN \* no function call: the generator returns
            /\ Ends("returned")
            /\ UNCHANGED <<chatbot, snippets_text, chat_history, local>>
       ELSE LET result == FunctionCallResult(local.function_name[1], local.raw_arguments)
            IN  IF result.error # "none"
                THEN /\ Ends(result.error)
                     /\ UNCHANGED <<chatbot, snippets_text, chat_history, local>>
                ELSE /\ local' = [local EXCEPT !.arguments = result.arguments]
                     /\ chat_history' = SetAssistant(chat_history, result.text)
                     /\ Yield(chat_history', local.snippets_text)
                     /\ pc' = "L173"
                     /\ UNCHANGED <<reenable, turn>>
    /\ UNCHANGED <<repo_full_name, msg, globals, pending, calls, emitted, creations, counters>>

\* A proposal that is already pending is kept.
StoredProposal_KeepFirst(previous, arguments) ==
    IF previous = None THEN Some(arguments) ELSE previous

\* proposed_pr = arguments: the value of the global after the assignment
StoredProposal(previous, arguments) == Some(arguments)

\* Line 174: proposed_pr = arguments, and the generator returns.
store_proposal ==
    /\ pc = "L173"
    /\ proposed_pr' = StoredProposal(proposed_pr, local.arguments)
    /\ creations' = 0
    /\ Ends("returned")
    /\ UNCHANGED <<widgets, selected_files, file_to_str, installation_id, pending, chat_history,
                   local, calls, emitted, counters>>

\* ------------------------------------------------------------ specifications
\* The steps of handle_message_stream after the stream_chat call, and before it.
StreamSteps ==
    \/ stream_next
    \/ stream_raises
    \/ stream_content
    \/ stream_function_call
    \/ stream_end
    \/ store_proposal

\* A session: every widget event, with the streams of Streams.
Next ==
    \/ handle_message_submit(MaxInteractions, Msgs)
    \/ reenable_msg
    \/ clear
    \/ file_names_change
    \/ repo_name_change(MaxInteractions)
    \/ stream_start
    \/ search_begin
    \/ search_call
    \/ confirm
    \/ confirm_raises
    \/ create_pr_call
    \/ confirm_return
    \/ generate_begin
    \/ stream_chat_call(Streams)
    \/ StreamSteps

Spec == Init /\ [][Next]_vars

\* The stream-aggregator specification: a session without widget events whose last
\* turn may be answered by any stream of AllStreams, the turns before it by Streams.
StreamsOfTurn == IF turns < MaxStreamTurns THEN Streams ELSE AllStreams

NextStream ==
    \/ handle_message_submit(MaxStreamTurns, StreamMsgs)
    \/ reenable_msg
    \/ stream_start
    \/ search_begin
    \/ search_call
    \/ generate_begin
    \/ stream_chat_call(StreamsOfTurn)
    \/ StreamSteps

SpecStream == Init /\ [][NextStream]_vars

\* The event-chain specification: submissions, accepted or rejected, repository
\* changes between them, and the stages of the chains they start.
NextChain ==
    \/ handle_message_submit(MaxChainEvents, StreamMsgs)
    \/ reenable_msg
    \/ repo_name_change(MaxChainEvents)
    \/ stream_start
    \/ search_begin
    \/ search_call
    \/ generate_begin
    \/ stream_chat_call(Streams)
    \/ StreamSteps

SpecChain == Init /\ [][NextChain]_vars

\* ------------------------------------------------------------ claims
\* A run of handle_message_stream has started; it has ended (returned or raised).
TurnStarted == turn.outcome # "none"
TurnEnded == turn.outcome \notin {"none", "running"}

\* C1, as stated: every turn whose incoming snippet block is empty or holds no line
\* break makes exactly one search call, with fanout 3 and with the user slot of
\* the last history element as the query.
C1_SearchWhenNoLineBreak ==
    (/\ TurnEnded
     /\ turn.accepted
     /\ Len(turn.chat_history) > 0
     /\ Count(turn.snippets_text, "\n") = 0)
    => /\ Len(calls.search) = 1
       /\ calls.search[1] = << LastUser(turn.chat_history), SearchFanout >>

\* C2, as stated: a turn whose incoming snippet block holds at least one line break,
\* a trailing one included, makes no search call.
C2_NoSearchWhenLineBreak ==
    (TurnStarted /\ Count(turn.snippets_text, "\n") >= 1) => Len(calls.search) = 0

\* C2, amended: a turn whose incoming snippet block, stripped of surrounding
\* whitespace, holds at least one line break makes no search call.
C2_NoSearchWhenInnerLineBreak ==
    (TurnStarted /\ Count(Strip(turn.snippets_text), "\n") >= 1) => Len(calls.search) = 0

\* An accepted turn with such a block has run to its end and called stream_chat.
C2_Witness ==
    /\ TurnEnded
    /\ turn.accepted
    /\ Count(Strip(turn.snippets_text), "\n") >= 1
    /\ turn.outcome = "returned"
    /\ Len(calls.stream_chat) = 1

\* A proposal was pending when the turn started and the user slot of the last
\* element of its history, trimmed and lower-cased, is exactly "ok" or "okay".
ConfirmationExpected ==
    /\ turn.proposed_pr # None
    /\ Len(turn.chat_history) > 0
    /\ LastUser(turn.chat_history) # None
    /\ Lower(Strip(LastUser(turn.chat_history)[1])) \in {OK_TEXT, OKAY_TEXT}

C4_ProposalClearedOncePrCreated ==
    /\ (TurnEnded /\ turn.at = "L137") => proposed_pr = None
    /\ creations <= 1

\* C5: a confirmed turn calls create_pr exactly once, with the plan of the pending
\* proposal mapped in order to (file_path, instructions) pairs, with the descriptor
\* {title, content: summary, branch_name: branch} and with the chat history; when
\* the call returns, the last assistant message holds the returned URL.
C5_CreatePrCall ==
    /\ Len(calls.create_pr) <= 1
    /\ (pc \in {"L126", "L137"} \/ turn.at \in {"L126", "L137"})
       => Len(calls.create_pr) = (IF pc = "L126" THEN 0 ELSE 1)
    /\ Len(calls.create_pr) = 1 =>
          LET call == calls.create_pr[1]
              pr == turn.proposed_pr[1].v
              plan == pr[KEY_PLAN].v
          IN  /\ Len(call.file_change_requests) = Len(plan)
              /\ \A i \in 1..Len(plan) :
                    call.file_change_requests[i] =
                        << plan[i].v[KEY_FILE_PATH], plan[i].v[KEY_INSTRUCTIONS] >>
              /\ call.pull_request = [title |-> pr[KEY_TITLE],
                                      content |-> pr[KEY_SUMMARY],
                                      branch_name |-> pr[KEY_BRANCH]]
              /\ call.messages = SetAssistant(turn.chat_history, CREATING_PR_TEXT)
    /\ (pc = "L137" \/ turn.at = "L137")
       => /\ Len(calls.html_urls) = 1
          /\ Contains(LastAssistant(chat_history)[1], calls.html_urls[1])

\* create_pr has returned for a proposal whose plan has two entries.
C5_Witness ==
    /\ pc = "L137"
    /\ Len(calls.create_pr) = 1
    /\ Len(calls.create_pr[1].file_change_requests) = 2
    /\ Len(calls.html_urls) = 1

\* The run consumed its whole stream and went on to the code after the loop.
StreamEndPassed == pc \in {"L160", "L173"} \/ (TurnEnded /\ turn.at \in {"L160", "L173"})
\* The run has finished with its stream, by going past its end or by raising.
StreamLeft == Len(calls.stream_chat) = 1 /\ pc \notin {"L143", "L149", "L150", "L154"}

\* C6: when a stream ends with the function name create_pr and the parsed arguments
\* lack one of the keys title, summary and plan, the turn ends in an assertion
\* error and the pending proposal is what it was when the turn started.
C6_MissingKeyIsFatal ==
    (/\ StreamEndPassed
     /\ pc # "L160"
     /\ local.function_name = Some(CREATE_PR)
     /\ JsonLoads(local.raw_arguments).ok
     /\ JsonLoads(local.raw_arguments).val.t = "dict"
     /\ ~ ({KEY_TITLE, KEY_SUMMARY, KEY_PLAN}
              \subseteq DOMAIN JsonLoads(local.raw_arguments).val.v))
    => /\ TurnEnded
       /\ turn.outcome = "AssertionError"
       /\ proposed_pr = turn.proposed_pr

\* A create_pr call without a plan has ended a turn that began with a proposal.
C6_Witness ==
    /\ TurnEnded
    /\ turn.at = "L160"
    /\ turn.proposed_pr # None
    /\ proposed_pr = turn.proposed_pr
    /\ local.function_name = Some(CREATE_PR)
    /\ local.raw_arguments = ARGS_NO_PLAN

\* C7: when a stream ends with a non-empty function name other than create_pr and
\* arguments that parse, the turn raises NotImplementedError and the pending
\* proposal is what it was when the turn started.
C7_OtherFunctionUnimplemented ==
    (/\ StreamEndPassed
     /\ pc # "L160"
     /\ local.function_name # None
     /\ Len(local.function_name[1]) > 0
     /\ local.function_name[1] # CREATE_PR
     /\ JsonLoads(local.raw_arguments).ok)
    => /\ TurnEnded
       /\ turn.outcome = "NotImplementedError"
       /\ proposed_pr = turn.proposed_pr

\* A call of the function "search" has ended a turn that began with a proposal.
C7_Witness ==
    /\ TurnEnded
    /\ turn.at = "L160"
    /\ turn.proposed_pr # None
    /\ proposed_pr = turn.proposed_pr
    /\ local.function_name = Some(FN_OTHER)
    /\ local.raw_arguments = ARGS_EMPTY_OBJECT

\* Every fragment of the stream holds a non-empty content and nothing else.
ContentOnly(stream) ==
    \A i \in 1..Len(stream.chunks) :
        DOMAIN stream.chunks[i] = {"content"} /\ Len(stream.chunks[i].content) > 0

\* The contents of the first k fragments, one after the other.
RECURSIVE ContentPrefix(_, _)
ContentPrefix(chunks, k) ==
    IF k = 0 THEN << >> ELSE ContentPrefix(chunks, k - 1) \o chunks[k].content

\* C8: for a stream of non-empty content fragments only, the text emitted after
\* the k-th fragment is the concatenation of the first k contents, each emitted
\* text is a prefix of the next, and the final assistant text is the concatenation
\* of all of them.
C8_ContentConcatenation ==
    (Len(calls.stream_chat) = 1 /\ pc # "L143" /\ ContentOnly(local.stream))
    => /\ Len(emitted) = (IF pc = "L150" THEN local.pos - 1 ELSE local.pos)
       /\ \A k \in 1..Len(emitted) : emitted[k] = ContentPrefix(local.stream.chunks, k)
       /\ \A k \in 1..(Len(emitted) - 1) :
             /\ Len(emitted[k]) < Len(emitted[k + 1])
             /\ SubSeq(emitted[k + 1], 1, Len(emitted[k])) = emitted[k]
       /\ StreamLeft
          => /\ Len(emitted) = Len(local.stream.chunks)
             /\ LastAssistant(chat_history) =
                   Some(ContentPrefix(local.stream.chunks, Len(local.stream.chunks)))

\* The stream "Hel", "lo" has been consumed and the assistant text is "Hello".
C8_Witness ==
    /\ TurnEnded
    /\ turn.outcome = "returned"
    /\ Len(calls.stream_chat) = 1
    /\ ContentOnly(local.stream)
    /\ Len(local.stream.chunks) >= 2
    /\ emitted = << TXT_HEL, TXT_HEL \o TXT_LO >>
    /\ LastAssistant(chat_history) = Some(TXT_HEL \o TXT_LO)

\* Every fragment of the stream holds a function call and nothing else.
CallOnly(stream) ==
    \A i \in 1..Len(stream.chunks) :
        /\ DOMAIN stream.chunks[i] = {"function_call"}
        /\ DOMAIN stream.chunks[i].function_call # {}

\* The name of the first fragment that has one, and None when no fragment has.
FirstName(chunks) ==
    IF \E i \in 1..Len(chunks) : "name" \in DOMAIN chunks[i].function_call
    THEN LET i == CHOOSE k \in 1..Len(chunks) :
                      /\ "name" \in DOMAIN chunks[k].function_call
                      /\ \A j \in 1..(k - 1) : "name" \notin DOMAIN chunks[j].function_call
         IN  Some(chunks[i].function_call.name)
    ELSE None

\* The arguments of the first k fragments that have some, one after the other.
RECURSIVE ArgumentsPrefix(_, _)
ArgumentsPrefix(chunks, k) ==
    IF k = 0 THEN << >>
    ELSE ArgumentsPrefix(chunks, k - 1)
         \o (IF "arguments" \in DOMAIN chunks[k].function_call
             THEN chunks[k].function_call.arguments ELSE << >>)

\* C9, as stated: for a stream of function-call fragments, each with or without a
\* name and with or without an arguments chunk, no fragment aborts the turn, and at
\* the end of the stream the function name is the first name supplied and the raw
\* arguments are the supplied chunks in order.
C9_FunctionCallAggregation ==
    (/\ StreamLeft
     /\ Len(local.stream.chunks) > 0
     /\ ~local.stream.raises
     /\ CallOnly(local.stream))
    => /\ StreamEndPassed
       /\ local.function_name = FirstName(local.stream.chunks)
       /\ local.raw_arguments = ArgumentsPrefix(local.stream.chunks, Len(local.stream.chunks))

\* C10: when a create_pr call with the three required keys is stored, the branch of
\* the stored proposal is the supplied branch when one was given, and otherwise the
\* title, cut to its first 50 characters, each lower-cased and each space and each
\* hyphen turned into an underscore.
C10_BranchOfStoredProposal ==
    (TurnEnded /\ turn.at = "L173")
    => LET supplied == JsonLoads(local.raw_arguments).val.v
       IN  /\ proposed_pr # None
           /\ \A key \in DOMAIN supplied : proposed_pr[1].v[key] = supplied[key]
           /\ KEY_BRANCH \in DOMAIN proposed_pr[1].v
           /\ KEY_BRANCH \notin DOMAIN supplied
              => LET title == supplied[KEY_TITLE].v
                     branch == proposed_pr[1].v[KEY_BRANCH].v
                 IN  /\ proposed_pr[1].v[KEY_BRANCH].t = "str"
                     /\ Len(branch) = (IF Len(title) < BranchMaxLen THEN Len(title)
                                       ELSE BranchMaxLen)
                     /\ \A i \in 1..Len(branch) :
                           branch[i] = (IF title[i] \in {" ", "-"} THEN "_"
                                        ELSE LowerChar(title[i]))

\* A proposal whose title is longer than 50 characters and has a hyphen within the
\* first 50 has been stored without a supplied branch.
C10_Witness ==
    /\ TurnEnded
    /\ turn.at = "L173"
    /\ proposed_pr # None
    /\ local.raw_arguments = ARGS_LONG_TITLE
    /\ Len(proposed_pr[1].v[KEY_TITLE].v) > BranchMaxLen
    /\ Len(proposed_pr[1].v[KEY_BRANCH].v) = BranchMaxLen
    /\ "_" \in {proposed_pr[1].v[KEY_BRANCH].v[i] : i \in 1..BranchMaxLen}

\* An accepted submission has its stream stage waiting or running.
AcceptedTurnActive ==
    \/ \E i \in 1..Len(pending) : pending[i]
    \/ pc # "idle" /\ turn.accepted

\* C11, as stated (its safety half): from the moment a turn is accepted until its
\* generator has completed or raised, the message input is not interactive, so no
\* second turn can start while one is active.
C11_InputDisabledWhileTurnActive == AcceptedTurnActive => ~msg.interactive

\* C12, as stated: when a message is submitted while no repository is selected, the
\* stream stage that follows in the chain makes no search, stream_chat or create_pr
\* call and leaves the chat history as it received it.
C12_RejectedSubmissionDoesNothing ==
    (TurnStarted /\ ~turn.accepted)
    => /\ Len(calls.search) = 0
       /\ Len(calls.stream_chat) = 0
       /\ Len(calls.create_pr) = 0
       /\ chat_history = turn.chat_history

\* C13, as stated: every step that changes the selected repository leaves the
\* selected files empty and the file-content cache without any entry.
C13_RepoChangeResetsFiles ==
    [][repo_full_name' # repo_full_name
         => (selected_files' = << >> /\ DOMAIN file_to_str' = {})]_vars

\* The stream of the turn ended with the name create_pr and arguments that parse
\* to a dict with the keys title, summary and plan.
ValidCreatePrCall ==
    /\ StreamEndPassed
    /\ pc = "idle"
    /\ local.function_name = Some(CREATE_PR)
    /\ JsonLoads(local.raw_arguments).ok
    /\ JsonLoads(local.raw_arguments).val.t = "dict"
    /\ {KEY_TITLE, KEY_SUMMARY, KEY_PLAN} \subseteq DOMAIN JsonLoads(local.raw_arguments).val.v

\* C14: at most one proposal is pending at any time, and after a turn whose stream
\* ends with a valid create_pr call the pending proposal is the arguments of that
\* call, with the derived branch when none was supplied, whatever was pending before.
C14_LatestProposalPending ==
    /\ Len(proposed_pr) <= 1
    /\ ValidCreatePrCall
       => LET supplied == JsonLoads(local.raw_arguments).val
          IN  /\ turn.outcome = "returned"
              /\ turn.at = "L173"
              /\ proposed_pr =
                    << IF KEY_BRANCH \in DOMAIN supplied.v THEN supplied
                       ELSE JDict((KEY_BRANCH :> JStr(DeriveBranch(supplied.v[KEY_TITLE].v)))
                                  @@ supplied.v) >>

\* A valid create_pr call has replaced a different proposal that was pending,
\* and never confirmed, when the turn started.
C14_Witness ==
    /\ ValidCreatePrCall
    /\ turn.proposed_pr # None
    /\ proposed_pr # turn.proposed_pr
    /\ proposed_pr[1].v[KEY_TITLE] # turn.proposed_pr[1].v[KEY_TITLE]

\* C15, as stated: while the stream is consumed the argument buffer is not parsed.
\* A function-call fragment met while the buffer is not valid JSON never raises and
\* yields "Calling function:", the name and the raw buffer in a fenced json block;
\* a JSONDecodeError is raised only after the last fragment, and then the turn ends
\* with the pending proposal unchanged.
C15_NoParseBeforeStreamEnd ==
    /\ ~ (/\ TurnEnded
          /\ turn.at = "L154"
          /\ ~JsonLoads(local.raw_arguments).ok)
    /\ (pc = "L149" /\ local.pos > 0 /\ HasTruthy(Chunk, "function_call"))
       => LastAssistant(chat_history) =
             Some(CALLING_PREFIX \o NameText(local.function_name) \o CALLING_MIDDLE
                  \o local.raw_arguments \o FENCE_END)
    /\ turn.outcome = "JSONDecodeError"
       => /\ turn.at = "L160"
          /\ local.pos = Len(local.stream.chunks)
          /\ proposed_pr = turn.proposed_pr

\* The contents of those of the first k fragments that hold one, one after the other.
RECURSIVE ContentSoFar(_, _)
ContentSoFar(chunks, k) ==
    IF k = 0 THEN << >>
    ELSE ContentSoFar(chunks, k - 1)
         \o (IF "content" \in DOMAIN chunks[k] THEN chunks[k].content ELSE << >>)

\* C16, as stated: in a stream that interleaves content and function-call fragments,
\* the assistant text emitted after each content fragment is the concatenation of
\* all the contents received so far; no function-call fragment discards them.
C16_ContentKeptAcrossFunctionCalls ==
    (pc = "L154" /\ HasTruthy(Chunk, "content"))
    => /\ Len(emitted) > 0
       /\ emitted[Len(emitted)] = ContentSoFar(local.stream.chunks, local.pos)
       /\ LastAssistant(chat_history) = Some(ContentSoFar(local.stream.chunks, local.pos))

\* C17, as stated: over the steps of handle_message_submit and
\* handle_message_stream the chat history is append-only: its length never
\* decreases, its elements before the last are never rewritten, and of its last
\* element only the assistant slot changes.
C17_ChatHistoryAppendOnly ==
    [][/\ Len(chatbot') >= Len(chatbot)
       /\ \A i \in 1..(Len(chatbot) - 1) : chatbot'[i] = chatbot[i]
       /\ Len(chatbot) > 0 => chatbot'[Len(chatbot)][1] = chatbot[Len(chatbot)][1]]_vars

\* C18: a turn that calls create_pr never calls stream_chat and leaves the pending
\* proposal as it was; when the call returns, the generator ends right after the
\* PR-created message, whether or not a search ran earlier in the turn.
C18_ConfirmedTurnEndsAfterPr ==
    Len(calls.create_pr) > 0
    => /\ Len(calls.stream_chat) = 0
       /\ proposed_pr = turn.proposed_pr
       /\ pc \in {"L137", "idle"}
       /\ TurnEnded
          => /\ turn.at \in {"L126", "L137"}
             /\ turn.at = "L137"
                => /\ turn.outcome = "returned"
                   /\ LastAssistant(chat_history) =
                         Some(PR_CREATED_PREFIX \o calls.html_urls[1])

\* A turn that searched and then called create_pr has returned.
C18_Witness ==
    /\ TurnEnded
    /\ turn.outcome = "returned"
    /\ turn.at = "L137"
    /\ Len(calls.search) = 1
    /\ Len(calls.create_pr) = 1
    /\ Len(calls.stream_chat) = 0

\* C19: snippets are not carried from one turn to the next: a turn without a search
\* calls stream_chat with an empty snippet list, and a turn with a search calls
\* stream_chat, when it does, with exactly what that search returned.
C19_SnippetsOfThisTurnOnly ==
    Len(calls.stream_chat) > 0
    => /\ Len(calls.stream_chat) = 1
       /\ Len(calls.search) <= 1
       /\ Len(calls.found) = Len(calls.search)
       /\ calls.stream_chat[1].snippets =
             (IF Len(calls.search) = 0 THEN << >> ELSE calls.found[1])

\* A turn without a search has called stream_chat after an earlier turn whose
\* search returned a snippet.
C19_Witness ==
    /\ Len(calls.stream_chat) = 1
    /\ Len(calls.search) = 0
    /\ turn.accepted
    /\ Count(Strip(turn.snippets_text), "\n") >= 1
    /\ Contains(turn.snippets_text, SNIPPET_1.denotation)

\* The turn follows one whose create_pr call raised: the element before the last
\* of its history still shows "Creating PR...".
FollowsFailedCreatePr ==
    /\ turn.accepted
    /\ Len(turn.chat_history) >= 2
    /\ turn.chat_history[Len(turn.chat_history) - 1][2] = Some(CREATING_PR_TEXT)

\* The arguments of the create_pr call of the turn are those of the proposal that
\* was pending when the turn started.
CallsCreatePrWithPending ==
    /\ Len(calls.create_pr) = 1
    /\ turn.proposed_pr # None
    /\ calls.create_pr[1].pull_request =
          [title |-> turn.proposed_pr[1].v[KEY_TITLE],
           content |-> turn.proposed_pr[1].v[KEY_SUMMARY],
           branch_name |-> turn.proposed_pr[1].v[KEY_BRANCH]]
    /\ Len(calls.create_pr[1].file_change_requests)
          = Len(turn.proposed_pr[1].v[KEY_PLAN].v)

\* The user slot of the last element of the turn's history is a confirmation.
LastMessageConfirms ==
    /\ LastUser(turn.chat_history) # None
    /\ Lower(Strip(LastUser(turn.chat_history)[1])) \in {OK_TEXT, OKAY_TEXT}

====
